---- MODULE Spec2Model ----
(***************************************************************************)
(* Model of the testkit scripts of the JavaScript driver repository:       *)
(* common.py (the runners and the flag readers), build.py, unittests.py,   *)
(* stress.py, integration.py and backend.py.  One script process runs at a *)
(* time; its state is its os.environ, its position, and the child          *)
(* processes it has launched.                                              *)
(***************************************************************************)
EXTENDS Integers, Sequences, FiniteSets, TLC

VARIABLES
    script,     \* which script's __main__ is running (or the runner called)
    pc,         \* position of the script process
    ip,         \* index of the next blocking command of the script's sequence
    environ,    \* os.environ of the script process
    environ0,   \* os.environ as it was when the script started (the parent's)
    branch,     \* the lite/full decision taken by the script: "none", "lite", "full"
    children,   \* child processes launched so far, in launch order
    events,     \* backend.py: what the script did and which child exited, in order
    raised,     \* the exception propagating in the script process
    raisedCode, \* the returncode carried by a CalledProcessError
    status,     \* exit status of the script process (Running until it ends)
    call        \* the arguments of the runner call under examination

vars == <<script, pc, ip, environ, environ0, branch, children, events,
          raised, raisedCode, status, call>>

-----------------------------------------------------------------------------
(* Bounds *)

\* child exit codes range over 0..MaxExitCode
MaxExitCode == 2

-----------------------------------------------------------------------------
(* Values *)

Unset == "<unset>"          \* key absent from a mapping
IntZero == "<int 0>"        \* the Python int 0 (not a str)
None == "<None>"            \* Python None for a string-valued parameter
Missing == "<missing>"      \* positional argument not supplied by the caller
Running == "<running>"      \* script has not exited yet
NoCode == (-1)              \* returncode of a process that has not exited (None)

NoEnv == <<>>               \* env=None
SomeEnv(e) == <<e>>         \* env=<mapping>

ExitCodes == 0..MaxExitCode

EnvKeys == {"TEST_DRIVER_LITE", "TEST_DRIVER_BROWSER", "TEST_DRIVER_DENO",
            "TEST_SESSION_TYPE", "SESSION_TYPE", "TEST_ENVIRONMENT",
            "TEST_NEO4J_STRESS_DURATION", "STRESS_TEST_MODE",
            "RUNNING_TIME_IN_SECONDS", "TEST_NEO4J_IPV6_ENABLED",
            "DRIVER_DESCRIPTOR"}

\* The values each variable takes in the parent environment; the variables
\* not listed are unset there.
LiteValues == {Unset, "", "true", "TRUE", "false", "0"}
BrowserValues == {Unset, "True", "false"}
DenoValues == {Unset, "1"}
TestSessionTypeValues == {Unset, "bolt"}
SessionTypeValues == {Unset, "neo4j"}
TestEnvironmentValues == {Unset, "REMOTE"}
StressDurationValues == {Unset, "10"}
DescriptorValues == {Unset, "custom"}

Env(l, b, d, t, s, e, n, x) ==
    [ k \in EnvKeys |->
        CASE k = "TEST_DRIVER_LITE"           -> l
          [] k = "TEST_DRIVER_BROWSER"        -> b
          [] k = "TEST_DRIVER_DENO"           -> d
          [] k = "TEST_SESSION_TYPE"          -> t
          [] k = "SESSION_TYPE"               -> s
          [] k = "TEST_ENVIRONMENT"           -> e
          [] k = "TEST_NEO4J_STRESS_DURATION" -> n
          [] k = "DRIVER_DESCRIPTOR"          -> x
          [] OTHER                            -> Unset ]

Environments ==
    { Env(l, b, d, t, s, e, n, x) :
        l \in LiteValues, b \in BrowserValues, d \in DenoValues,
        t \in TestSessionTypeValues, s \in SessionTypeValues,
        e \in TestEnvironmentValues, n \in StressDurationValues,
        x \in DescriptorValues }

\* dict.get(key, default) on an environment mapping
Get(env, key, default) == IF env[key] = Unset THEN default ELSE env[key]

\* Python truthiness of the result of os.environ.get(key, False)
Truthy(v) == v # Unset /\ v # ""

\* str.lower() on the values the flags take
Lower(s) ==
    CASE s = "TRUE"   -> "true"
      [] s = "True"   -> "true"
      [] s = "REMOTE" -> "remote"
      [] OTHER        -> s

-----------------------------------------------------------------------------
(* common.py: flag readers *)

DRIVER_REPO == "/home/driver/repo/"

is_enabled(value) == Lower(value) \in {"y", "yes", "t", "true", "1", "on"}

is_lite(env) == is_enabled(Get(env, "TEST_DRIVER_LITE", "false"))

is_browser(env) == is_enabled(Get(env, "TEST_DRIVER_BROWSER", "false"))

\* common.is_deno(), imported by backend.py: reads the deno flag like the two above
is_deno(env) == is_enabled(Get(env, "TEST_DRIVER_DENO", "false"))

get_driver_descriptor(env) ==
    (IF is_lite(env) THEN "lite" ELSE "full")
        \o (IF is_browser(env) THEN ",browser" ELSE ",node")

-----------------------------------------------------------------------------
(* subprocess: launching a child *)

LaunchOutcomes == {"ok", "not_found", "bad_cwd"}

NoChild == <<>>

\* The child process created for (args, env, cwd) by a script process whose
\* environment is parentEnv and whose current directory is callerCwd.
Child(args, env, cwd, parentEnv, callerCwd, st, code, failedBefore) ==
    [ args |-> args,
      cwd  |-> IF cwd = None THEN callerCwd ELSE cwd,
      env  |-> IF env = NoEnv THEN parentEnv ELSE env[1],
      state |-> st,
      code |-> code,
      afterFailure |-> failedBefore ]

\* subprocess.run(args, check=check, env=env, cwd=cwd): launch, wait, and
\* raise CalledProcessError(returncode) when check is set and the exit code
\* is not zero.  o is the outcome of the operating system: whether the
\* launch succeeds and the exit code of the child.
SubprocessRun(args, env, cwd, check, parentEnv, callerCwd, o) ==
    IF o.launch # "ok"
    THEN [ child |-> NoChild, raised |-> "FileNotFoundError", code |-> NoCode ]
    ELSE [ child |-> <<Child(args, env, cwd, parentEnv, callerCwd,
                             "exited", o.code, o.failedBefore)>>,
           raised |-> IF check /\ o.code # 0 THEN "CalledProcessError" ELSE "none",
           code |-> IF check /\ o.code # 0 THEN o.code ELSE NoCode ]

\* subprocess.Popen(args, cwd=cwd, env=env): launch and return at once.
SubprocessPopen(args, env, cwd, parentEnv, callerCwd, o) ==
    IF o.launch # "ok"
    THEN [ child |-> NoChild, raised |-> "FileNotFoundError", code |-> NoCode ]
    ELSE [ child |-> <<Child(args, env, cwd, parentEnv, callerCwd,
                             "running", NoCode, o.failedBefore)>>,
           raised |-> "none", code |-> NoCode ]

\* A call that does not bind its required positional parameters.
ArgumentError == [ child |-> NoChild, raised |-> "TypeError", code |-> NoCode ]

-----------------------------------------------------------------------------
(* The runners *)

\* common.run(args, env=None, cwd=None, check=True)
common_run(args, env, cwd, check, parentEnv, callerCwd, o) ==
    SubprocessRun(args, env, cwd, check, parentEnv, callerCwd, o)

\* common.run_in(cwd)(args, env=None)
common_run_in(cwd, args, env, parentEnv, callerCwd, o) ==
    common_run(args, env, cwd, TRUE, parentEnv, callerCwd, o)

\* {**os.environ, **env, "DRIVER_DESCRIPTOR": ...}: env laid over os.environ
WithDescriptorMerged(env, parentEnv) ==
    [ k \in EnvKeys |->
        IF k = "DRIVER_DESCRIPTOR" THEN get_driver_descriptor(parentEnv)
        ELSE IF env # NoEnv /\ env[1][k] # Unset THEN env[1][k]
        ELSE parentEnv[k] ]

\* {**env, "DRIVER_DESCRIPTOR": get_driver_descriptor()}; env defaults to
\* os.environ, and the descriptor is read from os.environ
WithDescriptor(env, parentEnv) ==
    [ (IF env = NoEnv THEN parentEnv ELSE env[1])
        EXCEPT !["DRIVER_DESCRIPTOR"] = get_driver_descriptor(parentEnv) ]

\* common.run_in_driver_repo(args, env=os.environ, check=True)
run_in_driver_repo(args, env, check, parentEnv, callerCwd, o) ==
    common_run(args, SomeEnv(WithDescriptor(env, parentEnv)), DRIVER_REPO, check,
               parentEnv, callerCwd, o)

\* common.open_proccess_in_driver_repo(args, env=os.environ)
open_proccess_in_driver_repo(args, env, parentEnv, callerCwd, o) ==
    SubprocessPopen(args, SomeEnv(WithDescriptor(env, parentEnv)), DRIVER_REPO,
                    parentEnv, callerCwd, o)

\* build.run with check=True left out
build_run_unchecked(args, env, cwd, parentEnv, callerCwd, o) ==
    SubprocessRun(args, env, cwd, FALSE, parentEnv, callerCwd, o)

\* build.run(args, env=None, cwd=None)
build_run(args, env, cwd, parentEnv, callerCwd, o) ==
    SubprocessRun(args, env, cwd, TRUE, parentEnv, callerCwd, o)

\* build.run_in(cwd)(args, env=None)
build_run_in(cwd, args, env, parentEnv, callerCwd, o) ==
    build_run(args, env, cwd, parentEnv, callerCwd, o)

\* integration.run(args, cwd): cwd is a required parameter
integration_run(args, cwd, parentEnv, callerCwd, o) ==
    IF cwd = Missing
    THEN ArgumentError
    ELSE SubprocessRun(args, NoEnv, cwd, TRUE, parentEnv, callerCwd, o)

\* stress.run(args, cwd=None)
stress_run(args, cwd, parentEnv, callerCwd, o) ==
    SubprocessRun(args, NoEnv, IF cwd = Missing THEN None ELSE cwd, TRUE,
                  parentEnv, callerCwd, o)

\* unittests.run(args, cwd=None)
unittests_run(args, cwd, parentEnv, callerCwd, o) ==
    SubprocessRun(args, NoEnv, IF cwd = Missing THEN None ELSE cwd, TRUE,
                  parentEnv, callerCwd, o)

-----------------------------------------------------------------------------
(* The command sequences of the scripts *)

Cmd(args, cwd) == [ args |-> args, cwd |-> cwd ]

\* build.build_core()
build_core ==
    << Cmd(<<"rm", "-fr", "node_modules", "lib", "types">>, "./packages/core/"),
       Cmd(<<"npm", "ci">>, "./packages/core/"),
       Cmd(<<"npm", "run", "build">>, "./packages/core/") >>

\* build.build_bolt_connection()
build_bolt_connection ==
    << Cmd(<<"rm", "-fr", "node_modules", "lib">>, "./packages/bolt-connection/"),
       Cmd(<<"npm", "ci">>, "./packages/bolt-connection/"),
       Cmd(<<"npm", "run", "build">>, "./packages/bolt-connection/") >>

\* build.build_driver()
build_driver ==
    << Cmd(<<"rm", "-fr", "node_modules", "lib", "build">>, "./packages/neo4j-driver/"),
       Cmd(<<"npm", "ci">>, "./packages/neo4j-driver/"),
       Cmd(<<"gulp", "nodejs">>, "./packages/neo4j-driver/") >>

\* build.build_driver_lite()
build_driver_lite ==
    << Cmd(<<"rm", "-fr", "node_modules", "lib">>, "./packages/neo4j-driver-lite/"),
       Cmd(<<"npm", "ci">>, "./packages/neo4j-driver-lite/"),
       Cmd(<<"npm", "run", "build">>, "./packages/neo4j-driver-lite/") >>

\* build.build_testkit_backend(isLite)
build_testkit_backend(isLite) ==
    << Cmd(<<"rm", "-fr", "node_modules">>, "./packages/testkit-backend/"),
       Cmd(<<"npm", "install">>, "./packages/testkit-backend/"),
       Cmd(<<"npm", "install",
             IF isLite THEN "neo4j@../neo4j-driver-lite" ELSE "neo4j@../neo4j-driver">>,
           "./packages/testkit-backend/") >>

\* build.py __main__ with build_driver() called before build_driver_lite()
build_main_driver_first(isLite) ==
    build_core \o build_bolt_connection \o build_driver
        \o (IF isLite THEN build_driver_lite ELSE <<>>)
        \o build_testkit_backend(isLite)

\* build.py __main__ after isLite has been read
build_main(isLite) ==
    build_core \o build_bolt_connection
        \o (IF isLite THEN build_driver_lite ELSE <<>>)
        \o build_driver \o build_testkit_backend(isLite)

\* unittests.py __main__ up to the lite/full branch
unittests_main ==
    << Cmd(<<"npm", "run", "test">>, "./packages/core"),
       Cmd(<<"npm", "run", "test">>, "./packages/bolt-connection") >>

\* unittests.test_driver()
unittests_test_driver ==
    << Cmd(<<"gulp", "test-nodejs-unit">>, "./packages/neo4j-driver"),
       Cmd(<<"gulp", "run-ts-declaration-tests">>, "./packages/neo4j-driver") >>

\* unittests.test_driver_lite()
unittests_test_driver_lite ==
    << Cmd(<<"npm", "test">>, "./packages/neo4j-driver-lite") >>

\* stress.test_driver()
stress_test_driver ==
    << Cmd(<<"gulp", "run-stress-tests-without-jasmine">>, "./packages/neo4j-driver") >>

\* stress.test_driver_lite()
stress_test_driver_lite == <<>>

\* `if os.environ.get("TEST_DRIVER_LITE", False):` as the scripts write it
EnvSaysLite(env) == Truthy(Get(env, "TEST_DRIVER_LITE", Unset))

BranchOf(isLite) == IF isLite THEN "lite" ELSE "full"

-----------------------------------------------------------------------------
(* The script process *)

ScriptCwd == "<cwd of the script>"

Scripts == {"build", "unittests", "stress", "integration", "backend"}

NoCall == [ args |-> <<>>, env |-> NoEnv, cwd |-> None, check |-> TRUE,
            callerCwd |-> ScriptCwd ]

Failed(cs) == \E i \in 1..Len(cs) : cs[i].state = "exited" /\ cs[i].code # 0

\* What the operating system does with a launch
Outcomes(cs) == [ launch : LaunchOutcomes, code : ExitCodes, failedBefore : {Failed(cs)} ]

Launched(cs, res) == IF res.child = NoChild THEN cs ELSE Append(cs, res.child[1])

Init ==
    /\ script \in Scripts
    /\ pc = "main"
    /\ ip = 1
    /\ environ \in Environments
    /\ environ0 = environ
    /\ branch = "none"
    /\ children = <<>>
    /\ events = <<>>
    /\ raised = "none"
    /\ raisedCode = NoCode
    /\ status = Running
    /\ call = NoCall

\* An uncaught exception ends the script with status 1
Abort(res) ==
    /\ raised' = res.raised
    /\ raisedCode' = res.code
    /\ pc' = "done"
    /\ status' = 1

\* One blocking command of a sequence: the script goes on to the next command
\* when the runner returns, ends with status 0 after the last one, and ends
\* at once when the runner raises.
Blocking(res, last) ==
    /\ children' = Launched(children, res)
    /\ IF res.raised # "none"
       THEN Abort(res) /\ ip' = ip
       ELSE /\ UNCHANGED <<raised, raisedCode>>
            /\ IF last
               THEN pc' = "done" /\ status' = 0 /\ ip' = ip
               ELSE pc' = pc /\ status' = status /\ ip' = ip + 1

\* build.py: isLite = os.environ.get("TEST_DRIVER_LITE", False)
BuildMain ==
    /\ script = "build" /\ pc = "main"
    /\ branch' = BranchOf(EnvSaysLite(environ))
    /\ pc' = "steps"
    /\ UNCHANGED <<script, ip, environ, environ0, children, events, raised,
                   raisedCode, status, call>>

\* build.py: the next run_in_<package>(...) call
BuildStep ==
    /\ script = "build" /\ pc = "steps"
    /\ LET prog == build_main(branch = "lite")
           c == prog[ip]
       IN \E o \in Outcomes(children) :
            Blocking(build_run_in(c.cwd, c.args, NoEnv, environ, ScriptCwd, o),
                     ip = Len(prog))
    /\ UNCHANGED <<script, environ, environ0, branch, events, call>>

\* unittests.py: the two run(...) calls of __main__, then the branch
UnittestsMain ==
    /\ script = "unittests" /\ pc = "main"
    /\ LET c == unittests_main[ip]
       IN \E o \in Outcomes(children) :
            LET res == unittests_run(c.args, c.cwd, environ, ScriptCwd, o)
            IN /\ children' = Launched(children, res)
               /\ IF res.raised # "none"
                  THEN Abort(res) /\ UNCHANGED <<ip, branch>>
                  ELSE /\ UNCHANGED <<raised, raisedCode, status>>
                       /\ IF ip = Len(unittests_main)
                          THEN /\ branch' = BranchOf(EnvSaysLite(environ))
                               /\ pc' = "steps" /\ ip' = 1
                          ELSE /\ branch' = branch
                               /\ pc' = pc /\ ip' = ip + 1
    /\ UNCHANGED <<script, environ, environ0, events, call>>

\* unittests.py: the next run(...) call of test_driver / test_driver_lite
UnittestsStep ==
    /\ script = "unittests" /\ pc = "steps"
    /\ LET prog == IF branch = "lite" THEN unittests_test_driver_lite
                                      ELSE unittests_test_driver
           c == prog[ip]
       IN \E o \in Outcomes(children) :
            Blocking(unittests_run(c.args, c.cwd, environ, ScriptCwd, o),
                     ip = Len(prog))
    /\ UNCHANGED <<script, environ, environ0, branch, events, call>>

\* os.environ[key] = value raises TypeError unless value is a str
IsStr(v) == v # IntZero

\* stress.py __main__: the two assignments to os.environ, then the branch
StressMain ==
    /\ script = "stress" /\ pc = "main"
    /\ LET e1 == [environ EXCEPT !["STRESS_TEST_MODE"] = "fastest"]
           v  == Get(e1, "TEST_NEO4J_STRESS_DURATION", IntZero)
       IN IF ~IsStr(v)
          THEN /\ environ' = e1
               /\ Abort([raised |-> "TypeError", code |-> NoCode])
               /\ UNCHANGED <<branch, ip>>
          ELSE /\ environ' = [e1 EXCEPT !["RUNNING_TIME_IN_SECONDS"] = v]
               /\ branch' = BranchOf(EnvSaysLite(environ'))
               /\ UNCHANGED <<raised, raisedCode, ip>>
               /\ IF Len(IF branch' = "lite" THEN stress_test_driver_lite
                                             ELSE stress_test_driver) = 0
                  THEN pc' = "done" /\ status' = 0
                  ELSE pc' = "steps" /\ status' = status
    /\ UNCHANGED <<script, environ0, children, events, call>>

\* stress.py: the run(...) call of test_driver
StressStep ==
    /\ script = "stress" /\ pc = "steps"
    /\ LET prog == IF branch = "lite" THEN stress_test_driver_lite
                                      ELSE stress_test_driver
           c == prog[ip]
       IN \E o \in Outcomes(children) :
            Blocking(stress_run(c.args, c.cwd, environ, ScriptCwd, o),
                     ip = Len(prog))
    /\ UNCHANGED <<script, environ, environ0, branch, events, call>>

\* integration.py __main__: run([...]) is called without cwd
IntegrationMain ==
    /\ script = "integration" /\ pc = "main"
    /\ environ' = [environ EXCEPT !["TEST_NEO4J_IPV6_ENABLED"] = "False"]
    /\ branch' = BranchOf(EnvSaysLite(environ'))
    /\ LET ignore == IF branch' = "lite" THEN "--ignore=neo4j-driver"
                                         ELSE "--ignore=neo4j-driver-lite"
       IN \E o \in Outcomes(children) :
            Blocking(integration_run(<<"npm", "run", "test::integration", "--", ignore>>,
                                     Missing, environ', ScriptCwd, o),
                     TRUE)
    /\ UNCHANGED <<script, environ0, events, call>>

-----------------------------------------------------------------------------
(* backend.py *)

BackendIdx == 1     \* the backend is the first child backend.py launches
FirefoxIdx == 2     \* the browser is the second

Exited(cs, i) == i <= Len(cs) /\ cs[i].state = "exited"

\* Popen.wait() returns once the process has exited
WaitReturns(cs, i) == Exited(cs, i)

\* Popen.__exit__ (leaving `with ... as backend`) waits for the process
ExitReturns(cs, i) == Exited(cs, i)

\* the browser is started whatever the flag says
WantsBrowserAlways(env) == TRUE

\* `if (is_browser()):` inside the with block
WantsBrowser(env) == is_browser(env)

\* backend.py lines 18-20: the npm script that starts the backend
backend_script(env) ==
    IF is_deno(env) THEN "start-testkit-backend::deno" ELSE "start-testkit-backend"

\* backend.py without lines 26-28: TEST_SESSION_TYPE is not forwarded
backend_environ_no_session(env) ==
    IF is_browser(env) THEN [env EXCEPT !["TEST_ENVIRONMENT"] = "REMOTE"] ELSE env

\* backend.py lines 22-28: the changes to os.environ
backend_environ(env) ==
    LET e1 == IF is_browser(env) THEN [env EXCEPT !["TEST_ENVIRONMENT"] = "REMOTE"]
                                 ELSE env
        session_type == Get(e1, "TEST_SESSION_TYPE", None)
    IN IF session_type # None THEN [e1 EXCEPT !["SESSION_TYPE"] = session_type]
                              ELSE e1

firefox_args == <<"firefox", "-profile ./profile -headless ", "http://localhost:8000">>

\* backend.py lines 17-33: set up the environment and start the backend
BackendMain ==
    /\ script = "backend" /\ pc = "main"
    /\ environ' = backend_environ(environ)
    /\ \E o \in Outcomes(children) :
         LET res == open_proccess_in_driver_repo(
                        <<"npm", "run", backend_script(environ)>>,
                        SomeEnv(environ'), environ', ScriptCwd, o)
         IN /\ children' = Launched(children, res)
            /\ IF res.raised # "none"
               THEN Abort(res) /\ events' = events
               ELSE /\ events' = Append(events, "backend_start")
                    /\ pc' = IF WantsBrowser(environ') THEN "sleep" ELSE "backend_wait"
                    /\ UNCHANGED <<raised, raisedCode, status>>
    /\ UNCHANGED <<script, ip, environ0, branch, call>>

\* backend.py line 35: time.sleep(5)
BackendSleep ==
    /\ script = "backend" /\ pc = "sleep"
    /\ events' = Append(events, "sleep")
    /\ pc' = "open_firefox"
    /\ UNCHANGED <<script, ip, environ, environ0, branch, children, raised,
                   raisedCode, status, call>>

\* backend.py lines 37-39: start the browser; a failure to launch it
\* propagates to the __exit__ of `with ... as backend`
BackendOpenFirefox ==
    /\ script = "backend" /\ pc = "open_firefox"
    /\ \E o \in Outcomes(children) :
         LET res == open_proccess_in_driver_repo(firefox_args, NoEnv, environ,
                                                 ScriptCwd, o)
         IN /\ children' = Launched(children, res)
            /\ IF res.raised # "none"
               THEN /\ raised' = res.raised /\ raisedCode' = res.code
                    /\ pc' = "backend_exit"
                    /\ events' = events
               ELSE /\ events' = Append(events, "firefox_start")
                    /\ pc' = "firefox_wait"
                    /\ UNCHANGED <<raised, raisedCode>>
    /\ UNCHANGED <<script, ip, environ, environ0, branch, status, call>>

\* backend.py line 40: firefox.wait(), then the __exit__ of `with ... as firefox`
BackendFirefoxWait ==
    /\ script = "backend" /\ pc = "firefox_wait"
    /\ WaitReturns(children, FirefoxIdx)
    /\ ExitReturns(children, FirefoxIdx)
    /\ events' = Append(events, "firefox_waited")
    /\ pc' = "backend_wait"
    /\ UNCHANGED <<script, ip, environ, environ0, branch, children, raised,
                   raisedCode, status, call>>

\* backend.py line 41: backend.wait(); the returncode is not looked at
BackendWait ==
    /\ script = "backend" /\ pc = "backend_wait"
    /\ WaitReturns(children, BackendIdx)
    /\ events' = Append(events, "backend_waited")
    /\ pc' = "backend_exit"
    /\ UNCHANGED <<script, ip, environ, environ0, branch, children, raised,
                   raisedCode, status, call>>

\* the __exit__ of `with ... as backend`, then the end of the script: status 0
\* when no exception is propagating, 1 otherwise
BackendExit ==
    /\ script = "backend" /\ pc = "backend_exit"
    /\ ExitReturns(children, BackendIdx)
    /\ pc' = "done"
    /\ status' = IF raised = "none" THEN 0 ELSE 1
    /\ UNCHANGED <<script, ip, environ, environ0, branch, children, events,
                   raised, raisedCode, call>>

\* a child started with Popen exits, with any code, when it chooses to
ChildExits ==
    /\ \E i \in 1..Len(children), code \in ExitCodes :
         /\ children[i].state = "running"
         /\ children' = [children EXCEPT ![i].state = "exited", ![i].code = code]
         /\ events' = Append(events, IF i = BackendIdx THEN "backend_exited"
                                                       ELSE "firefox_exited")
    /\ UNCHANGED <<script, pc, ip, environ, environ0, branch, raised,
                   raisedCode, status, call>>

\* the steps of the script process
ScriptStep ==
    \/ BuildMain
    \/ BuildStep
    \/ UnittestsMain
    \/ UnittestsStep
    \/ StressMain
    \/ StressStep
    \/ IntegrationMain
    \/ BackendMain
    \/ BackendSleep
    \/ BackendOpenFirefox
    \/ BackendFirefoxWait
    \/ BackendWait
    \/ BackendExit

Next == ScriptStep \/ ChildExits

Spec == Init /\ [][Next]_vars

-----------------------------------------------------------------------------
(* Calling one runner with arbitrary arguments *)

Runners == {"common.run", "common.run_in", "common.run_in_driver_repo",
            "common.open_proccess_in_driver_repo", "build.run", "build.run_in",
            "integration.run", "stress.run", "unittests.run"}

TakesEnv(r) == r \in {"common.run", "common.run_in", "common.run_in_driver_repo",
                      "common.open_proccess_in_driver_repo", "build.run",
                      "build.run_in"}
TakesCwd(r) == r \notin {"common.run_in_driver_repo",
                         "common.open_proccess_in_driver_repo"}
TakesCheck(r) == r \in {"common.run", "common.run_in_driver_repo"}
CwdPositional(r) == r \in {"integration.run", "stress.run", "unittests.run"}

ArgLists == { <<"true">>, <<"sh", "-c", "echo $FOO">> }

CallEnvironments ==
    { Env(l, b, Unset, Unset, s, Unset, Unset, x) :
        l \in {Unset, "true"}, b \in {Unset, "True"},
        s \in SessionTypeValues, x \in DescriptorValues }

CallInputs(r) ==
    [ args : ArgLists,
      env : IF TakesEnv(r) THEN {NoEnv} \cup {SomeEnv(e) : e \in CallEnvironments}
                           ELSE {NoEnv},
      cwd : IF TakesCwd(r)
            THEN {None, "/tmp"} \cup (IF CwdPositional(r) THEN {Missing} ELSE {})
            ELSE {None},
      check : IF TakesCheck(r) THEN BOOLEAN ELSE {TRUE},
      callerCwd : {"/", "/home/driver"} ]

InitRunner ==
    /\ script \in Runners
    /\ pc = "call"
    /\ ip = 1
    /\ environ \in CallEnvironments
    /\ environ0 = environ
    /\ branch = "none"
    /\ children = <<>>
    /\ events = <<>>
    /\ raised = "none"
    /\ raisedCode = NoCode
    /\ status = Running
    /\ call \in CallInputs(script)

\* the runner returns or raises; the caller is left as it was
Returned(res) ==
    /\ children' = Launched(children, res)
    /\ raised' = res.raised
    /\ raisedCode' = res.code
    /\ pc' = "returned"
    /\ UNCHANGED <<script, ip, environ, environ0, branch, events, status, call>>

CallCommonRun ==
    /\ script = "common.run" /\ pc = "call"
    /\ \E o \in Outcomes(children) :
         Returned(common_run(call.args, call.env, call.cwd, call.check,
                             environ, call.callerCwd, o))

CallCommonRunIn ==
    /\ script = "common.run_in" /\ pc = "call"
    /\ \E o \in Outcomes(children) :
         Returned(common_run_in(call.cwd, call.args, call.env,
                                environ, call.callerCwd, o))

CallRunInDriverRepo ==
    /\ script = "common.run_in_driver_repo" /\ pc = "call"
    /\ \E o \in Outcomes(children) :
         Returned(run_in_driver_repo(call.args, call.env, call.check,
                                     environ, call.callerCwd, o))

CallOpenProccessInDriverRepo ==
    /\ script = "common.open_proccess_in_driver_repo" /\ pc = "call"
    /\ \E o \in Outcomes(children) :
         Returned(open_proccess_in_driver_repo(call.args, call.env,
                                               environ, call.callerCwd, o))

CallBuildRun ==
    /\ script = "build.run" /\ pc = "call"
    /\ \E o \in Outcomes(children) :
         Returned(build_run(call.args, call.env, call.cwd,
                            environ, call.callerCwd, o))

CallBuildRunIn ==
    /\ script = "build.run_in" /\ pc = "call"
    /\ \E o \in Outcomes(children) :
         Returned(build_run_in(call.cwd, call.args, call.env,
                               environ, call.callerCwd, o))

CallIntegrationRun ==
    /\ script = "integration.run" /\ pc = "call"
    /\ \E o \in Outcomes(children) :
         Returned(integration_run(call.args, call.cwd,
                                  environ, call.callerCwd, o))

CallStressRun ==
    /\ script = "stress.run" /\ pc = "call"
    /\ \E o \in Outcomes(children) :
         Returned(stress_run(call.args, call.cwd, environ, call.callerCwd, o))

CallUnittestsRun ==
    /\ script = "unittests.run" /\ pc = "call"
    /\ \E o \in Outcomes(children) :
         Returned(unittests_run(call.args, call.cwd, environ, call.callerCwd, o))

NextRunner ==
    \/ CallCommonRun
    \/ CallCommonRunIn
    \/ CallRunInDriverRepo
    \/ CallOpenProccessInDriverRepo
    \/ CallBuildRun
    \/ CallBuildRunIn
    \/ CallIntegrationRun
    \/ CallStressRun
    \/ CallUnittestsRun

SpecRunner == InitRunner /\ [][NextRunner]_vars

-----------------------------------------------------------------------------
(* Properties *)

IsPrefix(s, t) == Len(s) <= Len(t) /\ SubSeq(t, 1, Len(s)) = s

Occurs(e) == \E i \in 1..Len(events) : events[i] = e

Before(a, b) == \E i, j \in 1..Len(events) : i < j /\ events[i] = a /\ events[j] = b

AllExitedZero ==
    \A i \in 1..Len(children) : children[i].state = "exited" /\ children[i].code = 0

\* C1: in every script, no child is launched after a child has exited
\* non-zero, a script that launched a child that exited non-zero ends with a
\* non-zero status, and a script ends with status 0 only if every child it
\* launched exited 0 (backend.py: the backend and the browser included).
C1_FailFast ==
    /\ \A i \in 1..Len(children) : ~children[i].afterFailure
    /\ (script \in Scripts /\ pc = "done") =>
          /\ Failed(children) => status # 0
          /\ status = 0 => AllExitedZero

\* what the script itself did, without the exits of its children
ScriptEvents ==
    SelectSeq(events, LAMBDA e : e \notin {"backend_exited", "firefox_exited"})

ExpectedEvents(browser) ==
    IF browser
    THEN <<"backend_start", "sleep", "firefox_start", "firefox_waited", "backend_waited">>
    ELSE <<"backend_start", "backend_waited">>

\* C2: backend.py starts the backend, sleeps and starts the browser exactly
\* when the browser target is selected (never the browser before the sleep,
\* never the sleep before the backend), waits on the browser and then on the
\* backend; each wait returns only after that process has exited, and the
\* script ends only after every process it started has exited.
C2_BackendOrder ==
    script = "backend" =>
        /\ IsPrefix(ScriptEvents, ExpectedEvents(is_browser(environ0)))
        /\ Len(children) = Cardinality({ i \in 1..Len(events) :
                               events[i] \in {"backend_start", "firefox_start"} })
        /\ Occurs("firefox_waited") => Before("firefox_exited", "firefox_waited")
        /\ Occurs("backend_waited") => Before("backend_exited", "backend_waited")
        /\ pc = "done" => \A i \in 1..Len(children) : children[i].state = "exited"
        /\ (pc = "done" /\ raised = "none") =>
               ScriptEvents = ExpectedEvents(is_browser(environ0))

\* the browser target is selected, the backend exits before the browser is
\* started, and the script has ended after both exited
C2_BackendExitsFirst ==
    /\ script = "backend" /\ pc = "done"
    /\ events = <<"backend_start", "sleep", "backend_exited", "firefox_start",
                  "firefox_exited", "firefox_waited", "backend_waited">>

\* C3: a failure to launch a child ends the script with that error, and the
\* script never blocks on anything else first: while the error is
\* propagating, the script process can always take its next step, whatever
\* the children it started are doing (backend.py: also when the backend is
\* still running and the browser could not be launched).
C3_LaunchFailureTerminates ==
    /\ (script \in Scripts /\ raised = "FileNotFoundError" /\ pc # "done") =>
           ENABLED ScriptStep
    /\ (script \in Scripts /\ raised = "FileNotFoundError" /\ pc = "done") =>
           status # 0

BlockingRunners == Runners \ {"common.open_proccess_in_driver_repo"}

\* the value of check the call runs with
CheckInEffect == IF TakesCheck(script) THEN call.check ELSE TRUE

\* C4 (as amended): a blocking runner returns normally when the child exits
\* 0; when the child exits non-zero it raises CalledProcessError carrying the
\* exit code if check is true (always, for the runners without a check
\* parameter) and returns normally if check is false.
C4_RaisesWhenChecked ==
    (script \in BlockingRunners /\ pc = "returned" /\ Len(children) = 1) =>
        LET c == children[1].code
        IN /\ c = 0 => raised = "none"
           /\ (c # 0 /\ CheckInEffect) =>
                  raised = "CalledProcessError" /\ raisedCode = c
           /\ (c # 0 /\ ~CheckInEffect) => raised = "none"

\* C4 (as claimed): for every value of the other parameters, check included,
\* the runner returns normally on exit code 0 and raises CalledProcessError
\* carrying the exit code otherwise.
C4_AlwaysRaisesOnFailure ==
    (script \in BlockingRunners /\ pc = "returned" /\ Len(children) = 1) =>
        LET c == children[1].code
        IN /\ c = 0 => raised = "none"
           /\ c # 0 => raised = "CalledProcessError" /\ raisedCode = c

\* build.run has raised for a child that exited with the largest code
C4_BuildRunRaised ==
    /\ script = "build.run" /\ pc = "returned" /\ Len(children) = 1
    /\ children[1].code = MaxExitCode
    /\ raised = "CalledProcessError" /\ raisedCode = MaxExitCode

DriverRepoRunners == {"common.run_in_driver_repo",
                      "common.open_proccess_in_driver_repo"}

\* the mapping the call passes as env (os.environ when it passes none)
PassedEnv == IF call.env = NoEnv THEN environ ELSE call.env[1]

ExpectedDescriptor ==
    CASE is_lite(environ) /\ is_browser(environ)   -> "lite,browser"
      [] is_lite(environ) /\ ~is_browser(environ)  -> "lite,node"
      [] ~is_lite(environ) /\ is_browser(environ)  -> "full,browser"
      [] OTHER                                     -> "full,node"

\* C5 (as amended): the child's environment is the passed mapping with
\* DRIVER_DESCRIPTOR replaced: every other key has the passed value, a key
\* absent from the passed mapping is absent for the child even when the
\* parent has it, and DRIVER_DESCRIPTOR is the descriptor computed from the
\* parent's flags whatever the passed mapping says.
C5_ChildEnvironment ==
    (script \in DriverRepoRunners /\ pc = "returned" /\ Len(children) = 1) =>
        /\ \A k \in EnvKeys \ {"DRIVER_DESCRIPTOR"} :
               children[1].env[k] = PassedEnv[k]
        /\ children[1].env["DRIVER_DESCRIPTOR"] = ExpectedDescriptor

\* C5 (as claimed): every key of the passed mapping, DRIVER_DESCRIPTOR
\* included, reaches the child with the passed value, and every key absent
\* from it but present in the parent reaches the child with the parent's.
C5_OverridesOverParent ==
    (script \in DriverRepoRunners /\ pc = "returned" /\ Len(children) = 1) =>
        \A k \in EnvKeys :
            /\ PassedEnv[k] # Unset => children[1].env[k] = PassedEnv[k]
            /\ (PassedEnv[k] = Unset /\ environ[k] # Unset) =>
                   children[1].env[k] = environ[k]

\* run_in_driver_repo was given a mapping without SESSION_TYPE and with its
\* own DRIVER_DESCRIPTOR, by a parent that has SESSION_TYPE
C5_PassedMappingReplaces ==
    /\ script = "common.run_in_driver_repo" /\ pc = "returned" /\ Len(children) = 1
    /\ call.env # NoEnv
    /\ PassedEnv["SESSION_TYPE"] = Unset /\ environ["SESSION_TYPE"] = "neo4j"
    /\ PassedEnv["DRIVER_DESCRIPTOR"] = "custom"
    /\ children[1].env["SESSION_TYPE"] = Unset
    /\ children[1].env["DRIVER_DESCRIPTOR"] = "full,node"

\* C6: integration.py, which omits the working directory, launches exactly
\* one command, npm run test::integration -- --ignore=<pkg>, in the caller's
\* current directory (unless the launch itself fails).
C6_IntegrationLaunchesOneCommand ==
    (script = "integration" /\ pc = "done" /\ raised # "FileNotFoundError") =>
        /\ Len(children) = 1
        /\ children[1].cwd = ScriptCwd
        /\ children[1].args \in
              { <<"npm", "run", "test::integration", "--", "--ignore=neo4j-driver">>,
                <<"npm", "run", "test::integration", "--", "--ignore=neo4j-driver-lite">> }

\* C7: whether or not TEST_NEO4J_STRESS_DURATION is set, stress.py gets past
\* its set-up with STRESS_TEST_MODE = "fastest" and RUNNING_TIME_IN_SECONDS =
\* the duration (zero when unset), takes one of the two branches, and every
\* command it launches sees both variables.
C7_StressEnvironment ==
    (script = "stress" /\ pc # "main") =>
        LET duration == IF environ0["TEST_NEO4J_STRESS_DURATION"] = Unset
                        THEN "0" ELSE environ0["TEST_NEO4J_STRESS_DURATION"]
        IN /\ branch \in {"lite", "full"}
           /\ environ["STRESS_TEST_MODE"] = "fastest"
           /\ environ["RUNNING_TIME_IN_SECONDS"] = duration
           /\ \A i \in 1..Len(children) :
                  /\ children[i].env["STRESS_TEST_MODE"] = "fastest"
                  /\ children[i].env["RUNNING_TIME_IN_SECONDS"] = duration

PackageOrder(cwd) ==
    CASE cwd = "./packages/core/"              -> 1
      [] cwd = "./packages/bolt-connection/"   -> 2
      [] cwd = "./packages/neo4j-driver-lite/" -> 3
      [] cwd = "./packages/neo4j-driver/"      -> 4
      [] cwd = "./packages/testkit-backend/"   -> 5
      [] OTHER                                 -> 0

\* 1 clean, 2 install dependencies, 3 build
StepKind(args) ==
    CASE args[1] = "rm"                                   -> 1
      [] args[1] = "npm" /\ args[2] \in {"ci", "install"} -> 2
      [] OTHER                                            -> 3

ExpectedBuild(lite) ==
    << <<1, 1>>, <<1, 2>>, <<1, 3>>, <<2, 1>>, <<2, 2>>, <<2, 3>> >>
      \o (IF lite THEN << <<3, 1>>, <<3, 2>>, <<3, 3>> >> ELSE <<>>)
      \o << <<4, 1>>, <<4, 2>>, <<4, 3>>, <<5, 1>>, <<5, 2>>, <<5, 2>> >>

\* C8: build.py builds core, bolt-connection, neo4j-driver-lite (only when
\* TEST_DRIVER_LITE selects lite, which build.py reads as: set and not
\* empty), neo4j-driver, testkit-backend, in that order and each as clean,
\* install, build; a step starts only after every earlier step exited 0; a
\* successful run has run all of them, and its last command installs
\* neo4j@../neo4j-driver-lite exactly when lite is selected.
C8_BuildOrder ==
    script = "build" =>
        LET lite == environ0["TEST_DRIVER_LITE"] \notin {Unset, ""}
            n == Len(children)
            steps == [ i \in 1..n |-> <<PackageOrder(children[i].cwd),
                                        StepKind(children[i].args)>> ]
        IN /\ IsPrefix(steps, ExpectedBuild(lite))
           /\ \A i \in 1..(n - 1) :
                  children[i].state = "exited" /\ children[i].code = 0
           /\ (pc = "done" /\ status = 0) =>
                  /\ steps = ExpectedBuild(lite)
                  /\ AllExitedZero
                  /\ children[n].args =
                        <<"npm", "install",
                          IF lite THEN "neo4j@../neo4j-driver-lite"
                                  ELSE "neo4j@../neo4j-driver">>

\* a successful lite build: fifteen commands
C8_LiteBuildDone ==
    /\ script = "build" /\ pc = "done" /\ status = 0
    /\ branch = "lite"
    /\ Len(children) = Len(ExpectedBuild(TRUE))

BackendStarted == script = "backend" /\ Len(children) >= 1

\* C9 (as amended): backend.py starts exactly one backend process, in the
\* driver repo, running npm run start-testkit-backend::deno when the deno
\* target is selected and npm run start-testkit-backend otherwise; its
\* TEST_ENVIRONMENT is REMOTE when the browser target is selected and the
\* parent's value otherwise; its SESSION_TYPE is TEST_SESSION_TYPE when that
\* is set and the parent's SESSION_TYPE otherwise.
C9_BackendProcess ==
    /\ (script = "backend" /\ events # <<>>) => Len(children) >= 1
    /\ BackendStarted =>
          LET b == children[BackendIdx]
          IN /\ b.cwd = DRIVER_REPO
             /\ b.args = <<"npm", "run",
                           IF is_deno(environ0) THEN "start-testkit-backend::deno"
                                                ELSE "start-testkit-backend">>
             /\ Cardinality({ i \in 1..Len(children) :
                                  children[i].args[1] = "npm" }) = 1
             /\ is_browser(environ0) => b.env["TEST_ENVIRONMENT"] = "REMOTE"
             /\ ~is_browser(environ0) =>
                    b.env["TEST_ENVIRONMENT"] = environ0["TEST_ENVIRONMENT"]
             /\ environ0["TEST_SESSION_TYPE"] # Unset =>
                    b.env["SESSION_TYPE"] = environ0["TEST_SESSION_TYPE"]
             /\ environ0["TEST_SESSION_TYPE"] = Unset =>
                    b.env["SESSION_TYPE"] = environ0["SESSION_TYPE"]

\* C9 (as claimed): the backend process has TEST_ENVIRONMENT=REMOTE if and
\* only if the browser target is selected.
C9_RemoteIffBrowser ==
    BackendStarted =>
        (children[BackendIdx].env["TEST_ENVIRONMENT"] = "REMOTE"
            <=> is_browser(environ0))

\* the deno backend started for the browser target with a session type
\* forwarded over the parent's SESSION_TYPE
C9_DenoBrowserBackendStarted ==
    /\ BackendStarted
    /\ is_deno(environ0) /\ is_browser(environ0)
    /\ environ0["TEST_ENVIRONMENT"] = Unset
    /\ environ0["TEST_SESSION_TYPE"] = "bolt" /\ environ0["SESSION_TYPE"] = "neo4j"
    /\ children[BackendIdx].env["SESSION_TYPE"] = "bolt"
    /\ children[BackendIdx].env["TEST_ENVIRONMENT"] = "REMOTE"

\* C10: for every value of TEST_DRIVER_LITE the branch a script takes is the
\* lite branch exactly when common.is_lite() is true, so that the
\* DRIVER_DESCRIPTOR common.py computes starts with "lite" exactly when the
\* scripts took the lite branch.
C10_SameLiteDecision ==
    (script \in Scripts /\ branch # "none") =>
        /\ branch = "lite" <=> is_lite(environ)
        /\ branch = "lite" <=>
               get_driver_descriptor(environ) \in {"lite,browser", "lite,node"}

====
